---- MODULE Spec2Model ----
(***************************************************************************)
(* A model of xds/internal/xdsclient/xdsresource/unmarshal_eds.go: the     *)
(* decoder and validator of EDS (ClusterLoadAssignment) resources.         *)
(*                                                                         *)
(* The parser is a pure function of its input message; it is written here  *)
(* as operators that follow the Go code statement by statement.  Two       *)
(* specifications apply it:                                                *)
(*   SpecParse  draws one ClusterLoadAssignment and runs parseEDSRespProto *)
(*   SpecBatch  draws a response (a list of resources) and runs            *)
(*              UnmarshalEndpoints over it, one resource per step.         *)
(*                                                                         *)
(* Protobuf messages are records.  An optional sub-message is a record     *)
(* with a `present` field; the generated getters return the zero value     *)
(* when the message is absent.  A wrapped uint32 (LoadBalancingWeight) is  *)
(* its value, 0 when absent, which is what GetValue() returns.  Strings    *)
(* that the code inspects or builds (host, address, locality string) are   *)
(* sequences of one-character strings or of tokens.                        *)
(***************************************************************************)
EXTENDS Integers, Sequences, FiniteSets

VARIABLES
    m,               \* parseEDSRespProto: the input ClusterLoadAssignment
    pc,              \* "parse" before the call, "batch" while a response is processed, "done" after
    ret,             \* parseEDSRespProto: the returned EndpointsUpdate
    err,             \* parseEDSRespProto: the returned error
    resources,       \* UnmarshalEndpoints: opts.Resources
    idx,             \* UnmarshalEndpoints: number of resources processed so far
    update,          \* UnmarshalEndpoints: map[string]EndpointsUpdateErrTuple
    returned,        \* UnmarshalEndpoints: what unmarshalEndpointsResource returned, per resource
    topLevelErrors,  \* UnmarshalEndpoints: errors not attributable to a resource name
    md               \* UnmarshalEndpoints: UpdateMetadata (its status)

vars == <<m, pc, ret, err, resources, idx, update, returned, topLevelErrors, md>>

----------------------------------------------------------------------------
(* Bounds of the inputs.                                                    *)

MaxLocalities == 2
MaxEndpoints == 2
MaxDrops == 2
MaxPriority == 2
MaxWeight == 2
MaxResources == 3

----------------------------------------------------------------------------
(* envoy.type.v3.FractionalPercent.DenominatorType, as switched on by       *)
(* parseDropPolicy.  Any other int32 is an unrecognized value.              *)

FractionalPercent_HUNDRED == 0
FractionalPercent_TEN_THOUSAND == 1
FractionalPercent_MILLION == 2

----------------------------------------------------------------------------
(* Errors.  Every error of the file is a record of the same shape.          *)

Error(kind, lid, priority) == [kind |-> kind, lid |-> lid, priority |-> priority]

nil == Error("nil", <<>>, 0)

ErrUnwrap == Error("failed to unwrap resource", <<>>, 0)
ErrResourceType == Error("unexpected resource type", <<>>, 0)
ErrUnmarshal == Error("failed to unmarshal resource", <<>>, 0)
ErrNoLocalityID == Error("locality without ID", <<>>, 0)
ErrZeroWeightEndpoint == Error("endpoint with zero weight", <<>>, 0)
ErrDuplicateLocality(lidStr, priority) == Error("duplicate locality", lidStr, priority)
ErrPriorityMissing(i) == Error("priority missing", <<>>, i)

\* EndpointsUpdate{}
EmptyUpdate == [Drops |-> <<>>, Localities |-> <<>>, Raw |-> <<>>]

----------------------------------------------------------------------------
(* parseAddress: net.JoinHostPort(address, strconv.Itoa(int(port))).        *)

Digits == <<"0", "1", "2", "3", "4", "5", "6", "7", "8", "9">>

RECURSIVE Itoa(_)
Itoa(n) == IF n < 10 THEN <<Digits[n + 1]>>
           ELSE Itoa(n \div 10) \o <<Digits[(n % 10) + 1]>>

\* net.JoinHostPort: a host holding a colon or a percent sign is bracketed.
JoinHostPort(host, port) ==
    IF \E i \in 1..Len(host) : host[i] \in {":", "%"}
    THEN <<"[">> \o host \o <<"]", ":">> \o port
    ELSE host \o <<":">> \o port

parseAddress(socketAddress) ==
    JoinHostPort(socketAddress.Address, Itoa(socketAddress.PortValue))

----------------------------------------------------------------------------
(* parseDropPolicy.                                                         *)

\* percentage.GetNumerator(): 0 on a nil FractionalPercent.
GetNumerator(percentage) ==
    IF percentage.present THEN percentage.Numerator ELSE 0

\* percentage.GetDenominator(): the enum's zero value on a nil FractionalPercent.
GetDenominator(percentage) ==
    IF percentage.present THEN percentage.Denominator ELSE FractionalPercent_HUNDRED

parseDropPolicyThousand(dropPolicy) ==
    LET percentage == dropPolicy.DropPercentage
        base == GetDenominator(percentage)
    IN  [Category |-> dropPolicy.Category,
         Numerator |-> GetNumerator(percentage),
         Denominator |-> IF base = FractionalPercent_HUNDRED THEN 100
                         ELSE IF base = FractionalPercent_TEN_THOUSAND THEN 1000
                         ELSE IF base = FractionalPercent_MILLION THEN 1000000
                         ELSE 0]

parseDropPolicyDefaultHundred(dropPolicy) ==
    LET percentage == dropPolicy.DropPercentage
        base == GetDenominator(percentage)
    IN  [Category |-> dropPolicy.Category,
         Numerator |-> GetNumerator(percentage),
         Denominator |-> IF base = FractionalPercent_TEN_THOUSAND THEN 10000
                         ELSE IF base = FractionalPercent_MILLION THEN 1000000
                         ELSE 100]

parseDropPolicy(dropPolicy) ==
    LET percentage == dropPolicy.DropPercentage
        numerator == GetNumerator(percentage)
        base == GetDenominator(percentage)
        denominator == IF base = FractionalPercent_HUNDRED THEN 100
                       ELSE IF base = FractionalPercent_TEN_THOUSAND THEN 10000
                       ELSE IF base = FractionalPercent_MILLION THEN 1000000
                       ELSE 0          \* var denominator uint32, left at zero
    IN  [Category |-> dropPolicy.Category,
         Numerator |-> numerator,
         Denominator |-> denominator]

\* for _, dropPolicy := range m.GetPolicy().GetDropOverloads() { append }
parseDrops(dropOverloads) ==
    [i \in 1..Len(dropOverloads) |-> parseDropPolicy(dropOverloads[i])]

----------------------------------------------------------------------------
(* parseEndpoints.                                                          *)

\* One Endpoint of the output, built from one LbEndpoint.
Endpoint(lbEndpoint) ==
    [HealthStatus |-> lbEndpoint.HealthStatus,
     Address |-> parseAddress(lbEndpoint.SocketAddress),
     Weight |-> lbEndpoint.LoadBalancingWeight]

\* The loop of parseEndpoints from entry i on, with the endpoints built so far.
RECURSIVE parseEndpointsFrom(_, _, _)
parseEndpointsFrom(lbEndpoints, i, endpoints) ==
    IF i > Len(lbEndpoints) THEN [endpoints |-> endpoints, err |-> nil]
    ELSE IF lbEndpoints[i].LoadBalancingWeight = 0
         THEN [endpoints |-> <<>>, err |-> ErrZeroWeightEndpoint]
         ELSE parseEndpointsFrom(lbEndpoints, i + 1,
                                 Append(endpoints, Endpoint(lbEndpoints[i])))

parseEndpointsKeepZero(lbEndpoints) ==
    [endpoints |-> [i \in 1..Len(lbEndpoints) |-> Endpoint(lbEndpoints[i])],
     err |-> nil]

parseEndpoints(lbEndpoints) == parseEndpointsFrom(lbEndpoints, 1, <<>>)

----------------------------------------------------------------------------
(* LocalityID.ToString (google.golang.org/grpc/xds/internal): the JSON      *)
(* encoding of the identity, whose three fields are tagged omitempty.  The  *)
(* string is the sequence of its key and value tokens.                      *)

ToString(lid) ==
    (IF lid.Region # "" THEN <<"region", lid.Region>> ELSE <<>>)
    \o (IF lid.Zone # "" THEN <<"zone", lid.Zone>> ELSE <<>>)
    \o (IF lid.SubZone # "" THEN <<"subZone", lid.SubZone>> ELSE <<>>)

----------------------------------------------------------------------------
(* parseEDSRespProto.  `priorities` (map[uint32]map[string]bool) is a       *)
(* function from the priorities seen to the set of locality strings seen    *)
(* at each.  The loop state is the localities appended so far, the map,     *)
(* and the error that ended the loop (nil while it runs).                   *)

LoopState(localities, priorities, e) ==
    [Localities |-> localities, priorities |-> priorities, err |-> e]

\* localitiesWithPriority := priorities[priority]; localitiesWithPriority[lidStr]
isDuplicateNever(priorities, priority, lidStr) == FALSE

isDuplicate(priorities, priority, lidStr) ==
    /\ priority \in DOMAIN priorities
    /\ lidStr \in priorities[priority]

\* priorities[priority] = make(...) when absent; localitiesWithPriority[lidStr] = true
recordLocality(priorities, priority, lidStr) ==
    [p \in (DOMAIN priorities) \cup {priority} |->
        IF p = priority
        THEN (IF p \in DOMAIN priorities THEN priorities[p] ELSE {}) \cup {lidStr}
        ELSE priorities[p]]

\* ret.Localities = append(ret.Localities, Locality{...})
appendLocalityFirst(localities, locality, endpoints) ==
    <<[ID |-> [Region |-> locality.Locality.Region,
               Zone |-> locality.Locality.Zone,
               SubZone |-> locality.Locality.SubZone],
       Endpoints |-> endpoints,
       Weight |-> locality.LoadBalancingWeight,
       Priority |-> locality.Priority]>> \o localities

appendLocality(localities, locality, endpoints) ==
    Append(localities,
           [ID |-> [Region |-> locality.Locality.Region,
                    Zone |-> locality.Locality.Zone,
                    SubZone |-> locality.Locality.SubZone],
            Endpoints |-> endpoints,
            Weight |-> locality.LoadBalancingWeight,
            Priority |-> locality.Priority])

\* The loop body for a locality that has an identity and a non-zero weight.
addLocality(st, locality) ==
    LET l == locality.Locality
        lid == [Region |-> l.Region, Zone |-> l.Zone, SubZone |-> l.SubZone]
        priority == locality.Priority
        lidStr == ToString(lid)
    IN  IF isDuplicate(st.priorities, priority, lidStr)
        THEN LoopState(<<>>, st.priorities, ErrDuplicateLocality(lidStr, priority))
        ELSE LET recorded == recordLocality(st.priorities, priority, lidStr)
                 parsed == parseEndpoints(locality.LbEndpoints)
             IN  IF parsed.err # nil
                 THEN LoopState(<<>>, recorded, parsed.err)
                 ELSE LoopState(appendLocality(st.Localities, locality, parsed.endpoints),
                                recorded, nil)

parseLocalityNoSkip(st, locality) ==
    IF ~locality.Locality.present
    THEN LoopState(<<>>, st.priorities, ErrNoLocalityID)
    ELSE addLocality(st, locality)

\* One iteration of `for _, locality := range m.Endpoints`.
parseLocality(st, locality) ==
    IF ~locality.Locality.present
    THEN LoopState(<<>>, st.priorities, ErrNoLocalityID)
    ELSE IF locality.LoadBalancingWeight = 0
         THEN st                        \* logger.Warningf(...); continue
         ELSE addLocality(st, locality)

\* The loop over m.Endpoints from entry i on; a return inside the body ends it.
RECURSIVE parseLocalities(_, _, _)
parseLocalities(endpoints, i, st) ==
    IF i > Len(endpoints) \/ st.err # nil THEN st
    ELSE parseLocalities(endpoints, i + 1, parseLocality(st, endpoints[i]))

\* for i := 0; i < len(priorities); i++ { if _, ok := priorities[uint32(i)]; !ok {...} }
RECURSIVE checkPrioritiesFrom(_, _, _)
checkPrioritiesFrom(priorities, i, n) ==
    IF i >= n THEN nil
    ELSE IF i \notin DOMAIN priorities THEN ErrPriorityMissing(i)
         ELSE checkPrioritiesFrom(priorities, i + 1, n)

checkPrioritiesOffByOne(priorities) ==
    checkPrioritiesFrom(priorities, 0, Cardinality(DOMAIN priorities) - 1)

checkPrioritiesFromOne(priorities) ==
    checkPrioritiesFrom(priorities, 1, Cardinality(DOMAIN priorities))

checkPriorities(priorities) ==
    checkPrioritiesFrom(priorities, 0, Cardinality(DOMAIN priorities))

\* m.GetPolicy().GetDropOverloads(): empty on a nil Policy.
GetDropOverloads(msg) ==
    IF msg.Policy.present THEN msg.Policy.DropOverloads ELSE <<>>

parseEDSRespProto(msg) ==
    LET drops == parseDrops(GetDropOverloads(msg))
        st == parseLocalities(msg.Endpoints, 1, LoopState(<<>>, <<>>, nil))
        missing == checkPriorities(st.priorities)
    IN  IF st.err # nil THEN [update |-> EmptyUpdate, err |-> st.err]
        ELSE IF missing # nil THEN [update |-> EmptyUpdate, err |-> missing]
        ELSE [update |-> [Drops |-> drops, Localities |-> st.Localities, Raw |-> <<>>],
              err |-> nil]

----------------------------------------------------------------------------
(* Resources of a response.  An anypb.Any is a type URL and a value; the    *)
(* value (bytes) is modelled by what decoding it gives: whether it decodes  *)
(* at all, the message it decodes to, and, for the discovery Resource       *)
(* wrapper, the wrapped Any (a sequence of length one).                     *)

V2EndpointsURL == "type.googleapis.com/envoy.api.v2.ClusterLoadAssignment"
V3EndpointsURL == "type.googleapis.com/envoy.config.endpoint.v3.ClusterLoadAssignment"
V3ClusterURL == "type.googleapis.com/envoy.config.cluster.v3.Cluster"
V3ResourceWrapperURL == "type.googleapis.com/envoy.service.discovery.v3.Resource"

\* unwrapResource: a Resource wrapper is decoded and its inner Any returned;
\* anything else is returned as it is.
unwrapResource(r) ==
    IF r.TypeUrl # V3ResourceWrapperURL THEN [r |-> r, err |-> nil]
    ELSE IF ~r.Value.valid THEN [r |-> r, err |-> ErrUnwrap]
    ELSE [r |-> r.Value.inner[1], err |-> nil]

IsEndpointsResource(url) == url \in {V2EndpointsURL, V3EndpointsURL}

unmarshalEndpointsResourceDropName(r0) ==
    LET unwrapped == unwrapResource(r0)
        r == unwrapped.r
        parsed == parseEDSRespProto(r.Value.msg)
    IN  IF unwrapped.err # nil \/ ~IsEndpointsResource(r.TypeUrl) \/ ~r.Value.valid
             \/ parsed.err # nil
        THEN [name |-> "", update |-> EmptyUpdate,
              err |-> IF unwrapped.err # nil THEN ErrUnwrap
                      ELSE IF ~IsEndpointsResource(r.TypeUrl) THEN ErrResourceType
                      ELSE IF ~r.Value.valid THEN ErrUnmarshal
                      ELSE parsed.err]
        ELSE [name |-> r.Value.msg.ClusterName,
              update |-> [parsed.update EXCEPT !.Raw = <<r>>], err |-> nil]

unmarshalEndpointsResource(r0) ==
    LET unwrapped == unwrapResource(r0)
        r == unwrapped.r
        cla == r.Value.msg              \* proto.Unmarshal(r.GetValue(), cla)
        parsed == parseEDSRespProto(cla)
    IN  IF unwrapped.err # nil
        THEN [name |-> "", update |-> EmptyUpdate, err |-> ErrUnwrap]
        ELSE IF ~IsEndpointsResource(r.TypeUrl)
        THEN [name |-> "", update |-> EmptyUpdate, err |-> ErrResourceType]
        ELSE IF ~r.Value.valid
        THEN [name |-> "", update |-> EmptyUpdate, err |-> ErrUnmarshal]
        ELSE IF parsed.err # nil
        THEN [name |-> cla.ClusterName, update |-> EmptyUpdate, err |-> parsed.err]
        ELSE [name |-> cla.ClusterName,
              update |-> [parsed.update EXCEPT !.Raw = <<r>>], err |-> nil]

----------------------------------------------------------------------------
(* UnmarshalEndpoints: processAllResources fills the map, one resource at   *)
(* a time.  An outcome is recorded against the name the resource parser     *)
(* reports; a failure of the envelope (unwrap, type, decode), which yields  *)
(* no name, goes to the response-level error instead.                       *)

EnvelopeErrors == {ErrUnwrap, ErrResourceType, ErrUnmarshal}

\* update[name] = tuple
setTuple(upd, name, tuple) ==
    [n \in (DOMAIN upd) \cup {name} |-> IF n = name THEN tuple ELSE upd[n]]

recordOutcome(upd, res) ==
    IF res.err = nil
    THEN setTuple(upd, res.name, [Update |-> res.update, Err |-> nil])
    ELSE IF res.err \in EnvelopeErrors THEN upd
    ELSE setTuple(upd, res.name, [Update |-> EmptyUpdate, Err |-> res.err])

----------------------------------------------------------------------------
(* Inputs.                                                                  *)

\* Hosts are sequences of characters: a dotted name and a literal with colons.
Hosts == {<<"h", ".", "1">>, <<":", ":", "1">>}
Ports == {80, 8443}
HealthStatuses == {1, 3}            \* HEALTHY, DRAINING
Regions == {"r1"}

LocalityIDs ==
    {[present |-> TRUE, Region |-> r, Zone |-> "", SubZone |-> ""] : r \in Regions}
    \cup {[present |-> TRUE, Region |-> "", Zone |-> r, SubZone |-> ""] : r \in Regions}

NoLocalityID == [present |-> FALSE, Region |-> "", Zone |-> "", SubZone |-> ""]

LbEndpointInputs ==
    {[LoadBalancingWeight |-> w, HealthStatus |-> h,
      SocketAddress |-> [Address |-> a, PortValue |-> p]] :
        w \in 0..MaxWeight, h \in HealthStatuses, a \in Hosts, p \in Ports}

\* The two endpoint lists used where the localities vary: one valid endpoint,
\* one endpoint of weight zero.
PlainEndpointLists ==
    {<<[LoadBalancingWeight |-> w, HealthStatus |-> 1,
        SocketAddress |-> [Address |-> <<"h", ".", "1">>, PortValue |-> 80]]>> :
        w \in {0, 1}}

LocalityInputs ==
    {[Locality |-> id, LoadBalancingWeight |-> w, Priority |-> p, LbEndpoints |-> eps] :
        id \in LocalityIDs, w \in 0..MaxWeight, p \in 0..MaxPriority,
        eps \in PlainEndpointLists}
    \cup {[Locality |-> NoLocalityID, LoadBalancingWeight |-> w, Priority |-> 0,
           LbEndpoints |-> eps] : w \in {0, 1}, eps \in PlainEndpointLists}

DropInputs ==
    {[Category |-> c, DropPercentage |-> pct] :
        c \in {"lb", "throttle"},
        pct \in {[present |-> FALSE, Numerator |-> 0, Denominator |-> 0]}
                \cup {[present |-> TRUE, Numerator |-> 5, Denominator |-> d] :
                        d \in {FractionalPercent_HUNDRED, FractionalPercent_TEN_THOUSAND,
                               FractionalPercent_MILLION, 3}}}

NoPolicy == [present |-> FALSE, DropOverloads |-> <<>>]

CLA(name, policy, endpoints) ==
    [ClusterName |-> name, Policy |-> policy, Endpoints |-> endpoints]

\* Messages with n locality entries, in which the localities vary.
LocalityMessages(n) ==
    {CLA("c", NoPolicy, e) : e \in [1..n -> LocalityInputs]}

\* Messages in which the n endpoints of one locality vary.
EndpointMessages(n) ==
    {CLA("c", NoPolicy,
         <<[Locality |-> id, LoadBalancingWeight |-> w, Priority |-> 0, LbEndpoints |-> eps]>>) :
        id \in {CHOOSE l \in LocalityIDs : l.Region # ""}, w \in {0, MaxWeight},
        eps \in [1..n -> LbEndpointInputs]}

\* Messages in which the n drop policies vary, over no locality, a valid one,
\* and one that fails the parse.
DropMessages(n) ==
    {CLA("c", [present |-> TRUE, DropOverloads |-> d], e) :
        d \in [1..n -> DropInputs],
        e \in {<<>>} \cup {<<[Locality |-> id, LoadBalancingWeight |-> 1, Priority |-> 0,
                              LbEndpoints |-> eps]>> :
                            id \in LocalityIDs, eps \in PlainEndpointLists}}


----------------------------------------------------------------------------
(* Resources of a response: ClusterLoadAssignments that parse and that do   *)
(* not (a locality at priority 1 alone), plain under either type URL or     *)
(* inside a Resource wrapper, a Cluster, and values that do not decode.     *)

Names == {"", "a", "b"}

PlainLocality(priority) ==
    [Locality |-> CHOOSE l \in LocalityIDs : l.Region # "",
     LoadBalancingWeight |-> 1, Priority |-> priority,
     LbEndpoints |-> CHOOSE eps \in PlainEndpointLists :
                        Len(eps) = 1 /\ eps[1].LoadBalancingWeight # 0]

ValidCLA(name) == CLA(name, NoPolicy, <<PlainLocality(0)>>)
GapCLA(name) == CLA(name, NoPolicy, <<PlainLocality(1)>>)

Any(url, valid, msg, inner) ==
    [TypeUrl |-> url, Value |-> [valid |-> valid, msg |-> msg, inner |-> inner]]

PlainResources ==
    {Any(V3EndpointsURL, TRUE, cla, <<>>) :
        cla \in {ValidCLA(n) : n \in Names} \cup {GapCLA(n) : n \in Names}}
    \cup {Any(V2EndpointsURL, TRUE, ValidCLA("a"), <<>>)}

WrappedResources ==
    {Any(V3ResourceWrapperURL, TRUE, CLA("", NoPolicy, <<>>), <<inner>>) :
        inner \in {Any(V3EndpointsURL, TRUE, ValidCLA("b"), <<>>),
                   Any(V3EndpointsURL, TRUE, GapCLA("b"), <<>>)}}

BadEnvelopeResources ==
    {Any(V3ClusterURL, TRUE, CLA("a", NoPolicy, <<>>), <<>>),
     Any(V3EndpointsURL, FALSE, CLA("", NoPolicy, <<>>), <<>>),
     Any(V3ResourceWrapperURL, FALSE, CLA("", NoPolicy, <<>>), <<>>)}

ResourceInputs == PlainResources \cup WrappedResources \cup BadEnvelopeResources

----------------------------------------------------------------------------
(* Specifications.                                                          *)

NoResponse ==
    /\ resources = <<>>
    /\ idx = 0
    /\ update = <<>>
    /\ returned = <<>>
    /\ topLevelErrors = <<>>
    /\ md = [Status |-> "Unknown"]

InitParse ==
    /\ \/ \E n \in 0..MaxLocalities : m \in LocalityMessages(n)
       \/ \E n \in 0..MaxEndpoints : m \in EndpointMessages(n)
       \/ \E n \in 0..MaxDrops : m \in DropMessages(n)
    /\ pc = "parse"
    /\ ret = EmptyUpdate
    /\ err = nil
    /\ NoResponse

\* u, err := parseEDSRespProto(cla, logger)
Parse ==
    /\ pc = "parse"
    /\ LET parsed == parseEDSRespProto(m)
       IN  /\ ret' = parsed.update
           /\ err' = parsed.err
    /\ pc' = "done"
    /\ UNCHANGED <<m, resources, idx, update, returned, topLevelErrors, md>>

NextParse == Parse

SpecParse == InitParse /\ [][NextParse]_vars

InitBatch ==
    /\ m = CLA("", NoPolicy, <<>>)
    /\ pc = "batch"
    /\ ret = EmptyUpdate
    /\ err = nil
    /\ \E n \in 0..MaxResources : resources \in [1..n -> ResourceInputs]
    /\ idx = 0
    /\ update = <<>>
    /\ returned = <<>>
    /\ topLevelErrors = <<>>
    /\ md = [Status |-> "Unknown"]

\* One iteration of the loop over opts.Resources.
ProcessResource ==
    /\ pc = "batch"
    /\ idx < Len(resources)
    /\ LET res == unmarshalEndpointsResource(resources[idx + 1])
       IN  /\ returned' = Append(returned, res)
           /\ update' = recordOutcome(update, res)
           /\ topLevelErrors' = IF res.err \in EnvelopeErrors
                                THEN Append(topLevelErrors, res.err)
                                ELSE topLevelErrors
    /\ idx' = idx + 1
    /\ UNCHANGED <<m, pc, ret, err, resources, md>>

\* After the loop: the response is ACKed when no resource failed, NACKed otherwise.
Finish ==
    /\ pc = "batch"
    /\ idx = Len(resources)
    /\ md' = [Status |-> IF \A i \in 1..Len(returned) : returned[i].err = nil
                         THEN "ACKed" ELSE "NACKed"]
    /\ pc' = "done"
    /\ UNCHANGED <<m, ret, err, resources, idx, update, returned, topLevelErrors>>

NextBatch == ProcessResource \/ Finish

SpecBatch == InitBatch /\ [][NextBatch]_vars

----------------------------------------------------------------------------
(* Properties.  The definitions below describe the input message and the    *)
(* expected outcome directly, from the fields of the input.                 *)

Parsed == pc = "done"
Ok == pc = "done" /\ err = nil

NonZeroWeight(locality) == locality.LoadBalancingWeight # 0

\* The locality entries of the input that declare a non-zero weight, in source order.
Surviving(msg) == SelectSeq(msg.Endpoints, NonZeroWeight)

InPriorities(msg) == {Surviving(msg)[i].Priority : i \in 1..Len(Surviving(msg))}
OutPriorities == {ret.Localities[i].Priority : i \in 1..Len(ret.Localities)}

HasGap(S) == \E p \in S : \E q \in 0..(p - 1) : q \notin S

SameIdentity(a, b) ==
    /\ a.Locality.present /\ b.Locality.present
    /\ a.Locality.Region = b.Locality.Region
    /\ a.Locality.Zone = b.Locality.Zone
    /\ a.Locality.SubZone = b.Locality.SubZone

HasZeroWeightEndpoint(locality) ==
    \E e \in 1..Len(locality.LbEndpoints) : locality.LbEndpoints[e].LoadBalancingWeight = 0

\* Entry j repeats the priority and identity of an earlier non-zero-weight entry.
DuplicateAt(msg, j) ==
    /\ NonZeroWeight(msg.Endpoints[j])
    /\ \E i \in 1..(j - 1) :
          /\ NonZeroWeight(msg.Endpoints[i])
          /\ msg.Endpoints[i].Priority = msg.Endpoints[j].Priority
          /\ SameIdentity(msg.Endpoints[i], msg.Endpoints[j])

\* Entry k fails the parse by itself: no identity, or a zero-weight endpoint
\* inside a non-zero-weight locality.
FailsAlone(msg, k) ==
    \/ ~msg.Endpoints[k].Locality.present
    \/ NonZeroWeight(msg.Endpoints[k]) /\ HasZeroWeightEndpoint(msg.Endpoints[k])

NoLocalityLevelError(msg) ==
    \A k \in 1..Len(msg.Endpoints) : ~FailsAlone(msg, k) /\ ~DuplicateAt(msg, k)

\* C1: a successful parse has no priority gap (below every output priority,
\* every tier is the priority of some output locality), and an input whose
\* non-zero-weight localities have a gap in their priorities, with no
\* locality-level error, fails with the missing-priority error.
C1_NoPriorityGap ==
    /\ Ok => \A i \in 1..Len(ret.Localities) :
                \A q \in 0..(ret.Localities[i].Priority - 1) :
                   \E j \in 1..Len(ret.Localities) : ret.Localities[j].Priority = q
    /\ (Parsed /\ NoLocalityLevelError(m) /\ HasGap(InPriorities(m)))
          => /\ err.kind = "priority missing"
             /\ err.priority \notin InPriorities(m)

C1_Witness ==
    /\ Parsed
    /\ InPriorities(m) = {0, 2}
    /\ err.kind = "priority missing"
    /\ err.priority = 1

\* C2: in a successful output every locality and every endpoint has a weight
\* above zero, equal to the weight declared in the input; a zero-weight
\* endpoint inside a non-zero-weight locality makes the parse fail.
C2_NonZeroWeights ==
    /\ Ok => /\ Len(ret.Localities) = Len(Surviving(m))
             /\ \A i \in 1..Len(ret.Localities) :
                   LET out == ret.Localities[i]
                       in == Surviving(m)[i]
                   IN  /\ out.Weight > 0
                       /\ out.Weight = in.LoadBalancingWeight
                       /\ Len(out.Endpoints) = Len(in.LbEndpoints)
                       /\ \A e \in 1..Len(out.Endpoints) :
                             /\ out.Endpoints[e].Weight > 0
                             /\ out.Endpoints[e].Weight = in.LbEndpoints[e].LoadBalancingWeight
    /\ (Parsed /\ \E k \in 1..Len(m.Endpoints) :
                     NonZeroWeight(m.Endpoints[k]) /\ HasZeroWeightEndpoint(m.Endpoints[k]))
          => err # nil

C2_Witness ==
    /\ Ok
    /\ \E i \in 1..Len(ret.Localities) :
          /\ ret.Localities[i].Weight > 1
          /\ Len(ret.Localities[i].Endpoints) = 2
          /\ ret.Localities[i].Endpoints[1].Weight > 1
          /\ ret.Localities[i].Endpoints[2].Weight = 1

\* The input without its zero-weight entries that carry an identity.
IsKept(locality) == ~(locality.Locality.present /\ locality.LoadBalancingWeight = 0)
WithoutSkipped(msg) == [msg EXCEPT !.Endpoints = SelectSeq(msg.Endpoints, IsKept)]

\* C3: a zero-weight locality entry with an identity is skipped: it is not in
\* the output, and the outcome (update and error) is the outcome of the same
\* message without such entries, so its endpoints raise no error, it takes
\* part in no duplicate, and its priority fills no tier.
C3_ZeroWeightLocalitySkipped ==
    Parsed =>
       /\ err = nil => /\ Len(ret.Localities) = Len(Surviving(m))
                       /\ \A i \in 1..Len(ret.Localities) : ret.Localities[i].Weight # 0
       /\ [update |-> ret, err |-> err] = parseEDSRespProto(WithoutSkipped(m))
       /\ (\A k \in 1..Len(m.Endpoints) : ~IsKept(m.Endpoints[k]))
             => err = nil /\ ret.Localities = <<>>

C3_Witness ==
    /\ Ok
    /\ Len(ret.Localities) = 1
    /\ \E k \in 1..Len(m.Endpoints) :
          /\ ~IsKept(m.Endpoints[k])
          /\ HasZeroWeightEndpoint(m.Endpoints[k])
          /\ m.Endpoints[k].Priority \notin OutPriorities
          /\ m.Endpoints[k].Priority > 0

\* The string s names the identity of the locality entry.
NamesIdentity(s, locality) ==
    \A f \in {locality.Locality.Region, locality.Locality.Zone, locality.Locality.SubZone} :
       f # "" => \E i \in 1..Len(s) : s[i] = f

\* C4: the first entry that repeats the priority and identity of an earlier
\* non-zero-weight entry, when no earlier entry failed, ends the parse with the
\* duplicate-locality error naming that identity and priority; the duplicate
\* error is raised only for such a repeat (never for one identity at two
\* priorities); a successful output has pairwise distinct (Priority, ID).
C4_DuplicateLocality ==
    /\ Parsed => \A j \in 1..Len(m.Endpoints) :
          (/\ DuplicateAt(m, j)
           /\ \A k \in 1..(j - 1) : ~FailsAlone(m, k) /\ ~DuplicateAt(m, k))
             => /\ err.kind = "duplicate locality"
                /\ err.priority = m.Endpoints[j].Priority
                /\ NamesIdentity(err.lid, m.Endpoints[j])
    /\ (Parsed /\ err.kind = "duplicate locality")
          => \E j \in 1..Len(m.Endpoints) :
                DuplicateAt(m, j) /\ err.priority = m.Endpoints[j].Priority
    /\ Ok => \A i, j \in 1..Len(ret.Localities) :
                (ret.Localities[i].Priority = ret.Localities[j].Priority
                 /\ ret.Localities[i].ID = ret.Localities[j].ID) => i = j

C4_Witness ==
    /\ Parsed
    /\ err.kind = "duplicate locality"
    /\ Len(m.Endpoints) = 2
    /\ m.Endpoints[1].Priority = 1
    /\ err.priority = 1
    /\ err.lid = <<"zone", "r1">>

\* The overload-drop entries of the input (none when there is no policy).
InputDrops(msg) == msg.Policy.DropOverloads

\* C5: a successful parse has one drop per input entry, in source order, with
\* the entry's category and numerator, and the denominator 100, 10000 or
\* 1000000 for the base HUNDRED, TEN_THOUSAND or MILLION.
C5_Drops ==
    Ok => /\ Len(ret.Drops) = Len(InputDrops(m))
          /\ \A i \in 1..Len(ret.Drops) :
                LET in == InputDrops(m)[i]
                    out == ret.Drops[i]
                IN  /\ out.Category = in.Category
                    /\ out.Numerator = in.DropPercentage.Numerator
                    /\ in.DropPercentage.present =>
                          /\ in.DropPercentage.Denominator = FractionalPercent_HUNDRED
                                => out.Denominator = 100
                          /\ in.DropPercentage.Denominator = FractionalPercent_TEN_THOUSAND
                                => out.Denominator = 10000
                          /\ in.DropPercentage.Denominator = FractionalPercent_MILLION
                                => out.Denominator = 1000000

C5_Witness ==
    /\ Ok
    /\ Len(ret.Drops) = 2
    /\ ret.Drops[1] = [Category |-> "throttle", Numerator |-> 5, Denominator |-> 1000000]
    /\ ret.Drops[2] = [Category |-> "lb", Numerator |-> 5, Denominator |-> 10000]

\* The payload of a resource: the Any inside a decodable Resource wrapper, or
\* the resource itself.
Payload(r) ==
    IF r.TypeUrl = V3ResourceWrapperURL /\ r.Value.valid THEN r.Value.inner[1] ELSE r

\* The resource decodes to a message, which declares a name.
HasDeclaredName(r) ==
    /\ r.TypeUrl = V3ResourceWrapperURL => r.Value.valid
    /\ Payload(r).TypeUrl # V3ResourceWrapperURL
    /\ Payload(r).Value.valid

DeclaredName(r) == Payload(r).Value.msg.ClusterName

\* The resource is an endpoints resource that decodes: it reaches validation.
ReachesValidation(r) ==
    /\ HasDeclaredName(r)
    /\ Payload(r).TypeUrl \in {V2EndpointsURL, V3EndpointsURL}

DistinctNames ==
    \A i, j \in 1..Len(resources) :
       (ReachesValidation(resources[i]) /\ ReachesValidation(resources[j])
        /\ DeclaredName(resources[i]) = DeclaredName(resources[j])) => i = j

C7_AlwaysDeclaredName ==
    \A i \in 1..idx :
       HasDeclaredName(resources[i]) => returned[i].name = DeclaredName(resources[i])

\* C7, amended: the name reported is the declared name on success and on
\* every failure of validation (after the message was decoded); on a failure
\* to unwrap, a wrong resource type or a failure to decode it is empty.
C7_DeclaredNameOnceDecoded ==
    \A i \in 1..idx :
       /\ ReachesValidation(resources[i])
             => returned[i].name = DeclaredName(resources[i])
       /\ ~ReachesValidation(resources[i])
             => returned[i].name = "" /\ returned[i].err \in EnvelopeErrors

C7_Witness ==
    /\ idx = 2
    /\ returned[1].name = "a" /\ returned[1].err.kind = "priority missing"
    /\ returned[2].name = "" /\ returned[2].err = ErrResourceType
    /\ DeclaredName(resources[2]) = "a"

\* The host and the port of a host:port string, read back as
\* net.SplitHostPort does: the port follows the last colon, and a host with a
\* colon must be in brackets.
LastColon(a) == CHOOSE i \in 1..Len(a) : a[i] = ":" /\ \A j \in (i + 1)..Len(a) : a[j] # ":"

HostOf(a) ==
    LET c == LastColon(a)
        bare == SubSeq(a, 1, c - 1)
    IN  IF c > 2 /\ a[1] = "[" /\ a[c - 1] = "]" THEN SubSeq(a, 2, c - 2)
        ELSE IF \E i \in 1..Len(bare) : bare[i] = ":" THEN <<"too many colons">>
        ELSE bare

RECURSIVE Atoi(_)
Atoi(s) ==
    IF s = <<>> THEN 0
    ELSE 10 * Atoi(SubSeq(s, 1, Len(s) - 1))
         + (CHOOSE d \in 0..9 : Digits[d + 1] = s[Len(s)])

PortOf(a) == Atoi(SubSeq(a, LastColon(a) + 1, Len(a)))

\* C8: on success the localities are the non-zero-weight entries of the input
\* in source order, each with the entry's identity, weight and priority, and
\* its endpoints in source order with the input endpoint's address (as
\* host:port), weight and health status.
C8_LocalitiesInSourceOrder ==
    Ok => /\ Len(ret.Localities) = Len(Surviving(m))
          /\ \A i \in 1..Len(ret.Localities) :
                LET out == ret.Localities[i]
                    in == Surviving(m)[i]
                IN  /\ out.ID.Region = in.Locality.Region
                    /\ out.ID.Zone = in.Locality.Zone
                    /\ out.ID.SubZone = in.Locality.SubZone
                    /\ out.Weight = in.LoadBalancingWeight
                    /\ out.Priority = in.Priority
                    /\ Len(out.Endpoints) = Len(in.LbEndpoints)
                    /\ \A e \in 1..Len(out.Endpoints) :
                          /\ HostOf(out.Endpoints[e].Address) = in.LbEndpoints[e].SocketAddress.Address
                          /\ PortOf(out.Endpoints[e].Address) = in.LbEndpoints[e].SocketAddress.PortValue
                          /\ out.Endpoints[e].Weight = in.LbEndpoints[e].LoadBalancingWeight
                          /\ out.Endpoints[e].HealthStatus = in.LbEndpoints[e].HealthStatus

C8_Witness ==
    /\ Ok
    /\ Len(m.Endpoints) = 2
    /\ Len(ret.Localities) = 2
    /\ ret.Localities[1].Priority = 1
    /\ ret.Localities[2].Priority = 0
    /\ ret.Localities[1].ID.Zone = "r1"
    /\ ret.Localities[2].ID.Region = "r1"
    /\ ret.Localities[1].Weight # ret.Localities[2].Weight

\* The error the message gives without its drop policies.
ErrWithoutDrops == parseEDSRespProto([m EXCEPT !.Policy = NoPolicy]).err

\* C9, as claimed: a drop entry with an unset base, or a base other than the
\* three recognized ones, gets the denominator 0 and does not fail the parse.
C9_UnsetOrUnknownBaseIsZero ==
    Parsed =>
       /\ err = ErrWithoutDrops
       /\ err = nil => \A i \in 1..Len(ret.Drops) :
             LET pct == InputDrops(m)[i].DropPercentage
             IN  (\/ ~pct.present
                  \/ pct.Denominator \notin {FractionalPercent_HUNDRED,
                                             FractionalPercent_TEN_THOUSAND,
                                             FractionalPercent_MILLION})
                    => ret.Drops[i].Denominator = 0

\* C9, amended: a drop entry whose base is a value other than the three
\* recognized ones gets the denominator 0; an entry whose percentage is unset
\* reads as HUNDRED and gets 100; neither fails the parse.
C9_UnknownBaseIsZero ==
    Parsed =>
       /\ err = ErrWithoutDrops
       /\ err = nil => \A i \in 1..Len(ret.Drops) :
             LET pct == InputDrops(m)[i].DropPercentage
             IN  /\ (pct.present
                     /\ pct.Denominator \notin {FractionalPercent_HUNDRED,
                                                FractionalPercent_TEN_THOUSAND,
                                                FractionalPercent_MILLION})
                       => ret.Drops[i].Denominator = 0
                 /\ ~pct.present => ret.Drops[i].Denominator = 100

C9_Witness ==
    /\ Ok
    /\ Len(ret.Localities) = 1
    /\ Len(ret.Drops) = 2
    /\ InputDrops(m)[1].DropPercentage.present
    /\ InputDrops(m)[1].DropPercentage.Denominator = 3
    /\ ret.Drops[1].Denominator = 0
    /\ ~InputDrops(m)[2].DropPercentage.present
    /\ ret.Drops[2].Denominator = 100

====
